---- MODULE Spec2Model ----
(***************************************************************************)
(* Model of script/hassfest/config_flow.py: the config-flow rule checker,  *)
(* the two index generators (v1 source listing, v2 brand-aware JSON), the  *)
(* drift validator and the writer.                                         *)
(*                                                                         *)
(* Python values are represented as follows.                               *)
(*   - an optional value (None or a value) is a sequence of length 0 or 1; *)
(*   - a dict whose insertion order reaches the output is a sequence of    *)
(*     <<key, value>> pairs (DictSet keeps the position of an existing     *)
(*     key, as Python does);                                               *)
(*   - a text (file content, generated artifact) is a sequence of tokens.  *)
(***************************************************************************)
EXTENDS Integers, Sequences, FiniteSets, TLC

VARIABLES
    integrations,          \* dict[str, Integration]: the loaded integrations (input)
    brands,                \* the brand definitions under homeassistant/brands (input)
    specific_integrations, \* config.specific_integrations, as a truth value
    integration_errors,    \* integration.errors, per domain
    integration_warnings,  \* integration.warnings, per domain
    errors,                \* config.errors
    cache,                 \* config.cache
    disk,                  \* the two generated artifacts on disk
    io,                    \* the files read and collaborators called so far
    raised,                \* the exception that aborted the run, "" if none
    calls,                 \* the functions called so far, in order
    outputs,               \* the values returned by direct generator calls
    result                 \* the dict built by the last _generate_v2 call

vars == <<integrations, brands, specific_integrations, integration_errors,
          integration_warnings, errors, cache, disk, io, raised, calls,
          outputs, result>>

-----------------------------------------------------------------------------
(* Bounds of the model. *)

MaxIdents == 2    \* identifiers in a config_flow.py text of the rule-checker runs
MaxCalls == 3     \* calls made by one run of the pipeline
MaxRuns == 2      \* direct calls of the generators on one input
MaxMembers == 2   \* length of a brand's integrations list

-----------------------------------------------------------------------------
(* Generic helpers. *)

Range(s) == {s[i] : i \in 1..Len(s)}

None == <<>>

Some(x) == <<x>>

\* All sequences over S of length at most n.
SeqsUpTo(S, n) == UNION {[1..k -> S] : k \in 0..n}

\* The iteration orders of a set or of a mapping's keys: every enumeration
\* of S without repetition.
Orders(S) ==
    {s \in [1..Cardinality(S) -> S] : \A i, j \in 1..Cardinality(S) : s[i] = s[j] => i = j}

\* Domain names in ascending string order; Rank is a name's position in it.
DomainOrder == <<"acme", "adguard", "foo", "huawei_lte", "mqtt">>

Rank(d) == CHOOSE i \in 1..Len(DomainOrder) : DomainOrder[i] = d

RECURSIVE Insert(_, _)
Insert(d, s) ==
    IF s = <<>> THEN <<d>>
    ELSE IF Rank(d) < Rank(Head(s)) THEN <<d>> \o s
    ELSE <<Head(s)>> \o Insert(d, Tail(s))

RECURSIVE SortedInto(_, _)
SortedInto(s, acc) ==
    IF s = <<>> THEN acc ELSE SortedInto(Tail(s), Insert(Head(s), acc))

UnsortedOrder(s) == s

\* sorted(iterable): the elements in ascending order, whatever the order
\* the iterable yields them in.
Sorted(s) == SortedInto(s, <<>>)

\* dict lookup / assignment on an insertion-ordered dict.
Keys(d) == {d[i][1] : i \in 1..Len(d)}

DictSet(d, k, v) ==
    IF k \in Keys(d)
    THEN [i \in 1..Len(d) |-> IF d[i][1] = k THEN <<k, v>> ELSE d[i]]
    ELSE Append(d, <<k, v>>)

-----------------------------------------------------------------------------
(* validate_integration *)

UNIQUE_ID_IGNORE == {"huawei_lte", "mqtt", "adguard"}

DiscoverySteps ==
    {"async_step_discovery", "async_step_bluetooth", "async_step_hassio",
     "async_step_homekit", "async_step_mqtt", "async_step_ssdp",
     "async_step_zeroconf", "async_step_dhcp", "async_step_usb"}

UniqueIdMarkers ==
    {"self.async_set_unique_id", "self._async_handle_discovery_without_unique_id",
     "register_discovery_flow", "AbstractOAuth2FlowHandler"}

\* Identifiers a config_flow.py text of the model is made of: the markers
\* themselves, one identifier that merely contains a marker, and one that
\* contains none.
Identifiers ==
    DiscoverySteps \cup UniqueIdMarkers
        \cup {"async_step_discovery_confirm", "async_step_user"}

\* needle in ident, for the identifiers above.
Substring(needle, ident) ==
    \/ needle = ident
    \/ needle = "async_step_discovery" /\ ident = "async_step_discovery_confirm"

\* needle in config_flow
In(needle, config_flow) ==
    \E i \in 1..Len(config_flow) : Substring(needle, config_flow[i])

ConfigFlowOf(integration) == integration.manifest[1].config_flow

NeedsUniqueIdNoIgnore(domain, config_flow) ==
    \E step \in DiscoverySteps : In(step, config_flow)

NeedsUniqueId(domain, config_flow) ==
    /\ domain \notin UNIQUE_ID_IGNORE
    /\ \E step \in DiscoverySteps : In(step, config_flow)

HasUniqueId(config_flow) ==
    \E marker \in UniqueIdMarkers : In(marker, config_flow)

MissingFileError ==
    [plugin |-> "config_flow",
     error |-> "Config flows need to be defined in the file config_flow.py"]

UniqueIdNotice ==
    [plugin |-> "config_flow",
     error |-> "Config flows that are discoverable need to set a unique ID"]

NoNotice == [errors |-> <<>>, warnings |-> <<>>]

\* notice_method("config_flow", ...): add_warning in a scoped run, add_error
\* otherwise.
Notice(specific) ==
    IF specific
    THEN [errors |-> <<>>, warnings |-> <<UniqueIdNotice>>]
    ELSE [errors |-> <<UniqueIdNotice>>, warnings |-> <<>>]

\* The diagnostics one call of validate_integration appends to the
\* integration's errors and warnings.
ValidateIntegration(specific, integration) ==
    IF integration.config_flow_file = None
    THEN IF ConfigFlowOf(integration)
         THEN [errors |-> <<MissingFileError>>, warnings |-> <<>>]
         ELSE NoNotice
    ELSE LET config_flow == integration.config_flow_file[1] IN
         IF ~NeedsUniqueId(integration.domain, config_flow) THEN NoNotice
         ELSE IF HasUniqueId(config_flow) THEN NoNotice
         ELSE Notice(specific)

-----------------------------------------------------------------------------
(* generate_and_validate *)

\* black.format_str(BASE.format(to_string(domains))): the header and the
\* FLOWS mapping with its two lists, as tokens.
FormatStr(domains) ==
    <<"Automatically generated by hassfest.", "FLOWS", "{", "integration", "[">>
        \o domains.integration
        \o <<"]", "helper", "[">>
        \o domains.helper
        \o <<"]", "}">>

RECURSIVE GenerateAndValidateLoop(_, _, _, _)
GenerateAndValidateLoop(ds, ints, specific, acc) ==
    IF ds = <<>> THEN acc
    ELSE LET domain == Head(ds)
             integration == ints[domain]
         IN IF integration.manifest = None \/ ~ConfigFlowOf(integration)
            THEN GenerateAndValidateLoop(Tail(ds), ints, specific, acc)
            ELSE LET n == ValidateIntegration(specific, integration)
                     noted == [acc EXCEPT !.errors[domain] = @ \o n.errors,
                                          !.warnings[domain] = @ \o n.warnings]
                 IN IF integration.integration_type \notin DOMAIN acc.domains
                    THEN [noted EXCEPT !.raised = "KeyError"]
                    ELSE GenerateAndValidateLoop(Tail(ds), ints, specific,
                           [noted EXCEPT
                              !.domains[integration.integration_type] = Append(@, domain)])

\* One call of generate_and_validate, the integrations mapping yielding its
\* keys in the order `order`: the exception raised ("" if none), the
\* diagnostics appended per domain, the two lists and the returned content.
Returned(acc) ==
    [raised |-> acc.raised,
     domains |-> acc.domains,
     errors |-> acc.errors,
     warnings |-> acc.warnings,
     content |-> IF acc.raised = "" THEN FormatStr(acc.domains) ELSE <<>>]

GenerateAndValidate(order, ints, specific) ==
    Returned(GenerateAndValidateLoop(Sorted(order), ints, specific,
               [raised |-> "",
                domains |-> [integration |-> <<>>, helper |-> <<>>],
                errors |-> [d \in DOMAIN ints |-> <<>>],
                warnings |-> [d \in DOMAIN ints |-> <<>>]]))

-----------------------------------------------------------------------------
(* _populate_brand_integrations and _generate_v2 *)

\* The metadata of one index entry. A key that the code leaves out of the
\* dict is FALSE (translated_name) or None (integrations, iot_standards).
IntegrationMetadata(integration) ==
    [name |-> integration.name,
     translated_name |-> integration.translated_name,
     integrations |-> None,
     iot_standards |-> None]

SubMetadata(integration) ==
    [name |-> integration.name, translated_name |-> integration.translated_name]

RECURSIVE PopulateLoop(_, _, _)
PopulateLoop(ints, nested, sub_integrations) ==
    IF sub_integrations = <<>> THEN nested
    ELSE LET domain == Head(sub_integrations) IN
         IF domain \notin DOMAIN ints
         THEN PopulateLoop(ints, nested, Tail(sub_integrations))
         ELSE PopulateLoop(ints, DictSet(nested, domain, SubMetadata(ints[domain])),
                           Tail(sub_integrations))

\* _populate_brand_integrations: brand_metadata with its "integrations"
\* mapping created if missing and filled from sub_integrations.
PopulateBrandIntegrations(ints, brand_metadata, sub_integrations) ==
    LET existing == IF brand_metadata.integrations = None THEN <<>>
                    ELSE brand_metadata.integrations[1]
    IN [brand_metadata EXCEPT
          !.integrations = Some(PopulateLoop(ints, existing, sub_integrations))]

\* brand.integrations or []
MemberList(brand) == IF brand.integrations = None THEN <<>> ELSE brand.integrations[1]

BrandIntegrationDomainsOneBrand(brs) ==
    IF DOMAIN brs = {} THEN {}
    ELSE Range(MemberList(brs[CHOOSE b \in DOMAIN brs : TRUE]))

\* The domains referenced from at least one brand's integrations list.
BrandIntegrationDomains(brs) == UNION {Range(MemberList(brs[b])) : b \in DOMAIN brs}

PrimaryDomainsKeepClaimed(brs, ints) ==
    {domain \in DOMAIN ints :
        /\ ints[domain].manifest # None
        /\ ConfigFlowOf(ints[domain])}
    \cup DOMAIN brs

PrimaryDomains(brs, ints) ==
    {domain \in DOMAIN ints :
        /\ ints[domain].manifest # None
        /\ ConfigFlowOf(ints[domain])
        /\ domain \notin BrandIntegrationDomains(brs)}
    \cup DOMAIN brs

BrandMetadata(brand, ints) ==
    LET named == [name |-> brand.name, translated_name |-> FALSE,
                  integrations |-> None, iot_standards |-> None]
        populated == IF MemberList(brand) # <<>>
                     THEN PopulateBrandIntegrations(ints, named, brand.integrations[1])
                     ELSE named
    IN IF brand.iot_standards # None /\ brand.iot_standards[1] # <<>>
       THEN [populated EXCEPT !.iot_standards = brand.iot_standards]
       ELSE populated

RECURSIVE GenerateV2Loop(_, _, _, _)
GenerateV2Loop(ds, brs, ints, acc) ==
    IF ds = <<>> THEN acc
    ELSE LET domain == Head(ds) IN
         IF domain \in DOMAIN brs
         THEN GenerateV2Loop(Tail(ds), brs, ints,
                [acc EXCEPT !.result.integration =
                    DictSet(@, domain, BrandMetadata(brs[domain], ints))])
         ELSE LET integration == ints[domain] IN
              IF integration.integration_type \notin DOMAIN acc.result
              THEN [acc EXCEPT !.raised = "KeyError"]
              ELSE GenerateV2Loop(Tail(ds), brs, ints,
                     [acc EXCEPT !.result[integration.integration_type] =
                         DictSet(@, domain, IntegrationMetadata(integration))])

\* json.dumps(result, indent=2), as tokens; keys in insertion order.
RECURSIVE DumpList(_)
DumpList(l) == IF l = <<>> THEN <<>> ELSE <<Head(l)>> \o DumpList(Tail(l))

DumpSub(m) ==
    <<"{", "name", m.name>>
        \o (IF m.translated_name THEN <<"translated_name", "true">> ELSE <<>>)
        \o <<"}">>

RECURSIVE DumpSubs(_)
DumpSubs(d) ==
    IF d = <<>> THEN <<>>
    ELSE <<Head(d)[1]>> \o DumpSub(Head(d)[2]) \o DumpSubs(Tail(d))

DumpMetadata(m) ==
    <<"{", "name", m.name>>
        \o (IF m.translated_name THEN <<"translated_name", "true">> ELSE <<>>)
        \o (IF m.integrations # None
            THEN <<"integrations", "{">> \o DumpSubs(m.integrations[1]) \o <<"}">>
            ELSE <<>>)
        \o (IF m.iot_standards # None
            THEN <<"iot_standards", "[">> \o DumpList(m.iot_standards[1]) \o <<"]">>
            ELSE <<>>)
        \o <<"}">>

RECURSIVE DumpEntries(_)
DumpEntries(d) ==
    IF d = <<>> THEN <<>>
    ELSE <<Head(d)[1]>> \o DumpMetadata(Head(d)[2]) \o DumpEntries(Tail(d))

JsonDumps(res) ==
    <<"{", "integration", "{">> \o DumpEntries(res.integration)
        \o <<"}", "helper", "{">> \o DumpEntries(res.helper) \o <<"}", "}">>

\* One call of _generate_v2, the set primary_domains yielding its elements
\* in the order `order`.
ReturnedV2(acc) ==
    [raised |-> acc.raised,
     result |-> acc.result,
     content |-> IF acc.raised = "" THEN JsonDumps(acc.result) ELSE <<>>]

GenerateV2(order, brs, ints) ==
    ReturnedV2(GenerateV2Loop(Sorted(order), brs, ints,
                 [raised |-> "",
                  result |-> [integration |-> <<>>, helper |-> <<>>]]))

-----------------------------------------------------------------------------
(* validate and generate *)

CONFIG_FLOWS_PY == "config_flows.py"

CONFIG_FLOWS_V2_JSON == "config_flows_v2.json"

EmptyCache == [config_flow |-> None, config_flow_v2 |-> None]

\* config.add_error("config_flow", "File ... is not up to date. ...", fixable=True)
DriftError(file) ==
    [plugin |-> "config_flow", file |-> file,
     error |-> "is not up to date. Run python3 -m script.hassfest",
     fixable |-> TRUE]

JsonExpectedNoNewline(content) == content

\* content + "\n": what validate expects to find in config_flows_v2.json
JsonExpected(content) == content \o <<"\n">>

JsonWrittenNoNewline(content) == content

\* f"{config.cache['config_flow_v2']}\n": what generate writes
JsonWritten(content) == content \o <<"\n">>

CacheV2Dropped(st, content) == st

\* config.cache["config_flow_v2"] = content
CacheV2(st, content) == [st EXCEPT !.cache.config_flow_v2 = Some(content)]

DriftCheckedAlways(specific) == TRUE

\* validate goes on to the drift check unless the run is scoped.
DriftChecked(specific) == ~specific

\* validate_brands(brands, integrations, config) is defined outside this
\* file: it records the errors it finds, of its own category, on the Config.
BrandError ==
    [plugin |-> "brand", file |-> "acme.json", error |-> "Invalid brand file",
     fixable |-> FALSE]

BrandErrors == {<<>>, <<BrandError>>}

\* The state validate leaves behind, given what generate_and_validate (gv)
\* and _generate_v2 (v2) return on the current input and what validate_brands
\* records (found).
ValidateFrom(st, gv, v2, found) ==
    LET checked == [st EXCEPT
                      !.integration_errors =
                          [d \in DOMAIN @ |-> @[d] \o gv.errors[d]],
                      !.integration_warnings =
                          [d \in DOMAIN @ |-> @[d] \o gv.warnings[d]]]
    IN IF gv.raised # "" THEN [checked EXCEPT !.raised = gv.raised]
       ELSE LET cached1 == [checked EXCEPT !.cache.config_flow = Some(gv.content)] IN
       IF ~DriftChecked(st.specific_integrations) THEN cached1
       ELSE LET loaded == [cached1 EXCEPT !.io = @ \cup {"load_dir", "validate_brands"},
                                          !.errors = @ \o found] IN
       IF st.disk[CONFIG_FLOWS_PY] = None
       THEN [loaded EXCEPT !.raised = "FileNotFoundError"]
       ELSE LET read1 == [loaded EXCEPT
                            !.io = @ \cup {CONFIG_FLOWS_PY},
                            !.errors =
                               IF st.disk[CONFIG_FLOWS_PY][1] # gv.content
                               THEN Append(@, DriftError(CONFIG_FLOWS_PY)) ELSE @]
            IN
       IF v2.raised # "" THEN [read1 EXCEPT !.raised = v2.raised]
       ELSE LET cached2 == CacheV2(read1, v2.content) IN
       IF st.disk[CONFIG_FLOWS_V2_JSON] = None
       THEN [cached2 EXCEPT !.raised = "FileNotFoundError"]
       ELSE [cached2 EXCEPT
               !.io = @ \cup {CONFIG_FLOWS_V2_JSON},
               !.errors =
                  IF st.disk[CONFIG_FLOWS_V2_JSON][1] # JsonExpected(v2.content)
                  THEN Append(@, DriftError(CONFIG_FLOWS_V2_JSON)) ELSE @]

\* The state generate leaves behind: each file is truncated by open(.., "w")
\* before its content is looked up in config.cache.
GenerateFrom(st) ==
    LET opened1 == [st EXCEPT !.disk[CONFIG_FLOWS_PY] = Some(<<>>)] IN
    IF st.cache.config_flow = None THEN [opened1 EXCEPT !.raised = "KeyError"]
    ELSE LET written1 == [opened1 EXCEPT !.disk[CONFIG_FLOWS_PY] = st.cache.config_flow]
             opened2 == [written1 EXCEPT !.disk[CONFIG_FLOWS_V2_JSON] = Some(<<>>)]
         IN IF st.cache.config_flow_v2 = None
            THEN [opened2 EXCEPT !.raised = "KeyError"]
            ELSE [opened2 EXCEPT !.disk[CONFIG_FLOWS_V2_JSON] =
                                     Some(JsonWritten(st.cache.config_flow_v2[1]))]

-----------------------------------------------------------------------------
(* Inputs. *)

IntegrationTypes == {"integration", "helper", "hub"}

\* Display names: an integration's manifest name and a brand's name.
Name(domain) ==
    CASE domain = "acme" -> "Acme"
      [] domain = "adguard" -> "AdGuard Home"
      [] domain = "foo" -> "Foo"
      [] OTHER -> "Integration"

BrandName(domain) ==
    CASE domain = "acme" -> "Acme Corporation"
      [] domain = "foo" -> "Foo Group"
      [] OTHER -> "Brand"

Integration(domain, manifest, type, translated, file) ==
    [domain |-> domain, name |-> Name(domain), manifest |-> manifest,
     integration_type |-> type, translated_name |-> translated,
     config_flow_file |-> file]

Brand(domain, members, standards) ==
    [domain |-> domain, name |-> BrandName(domain), integrations |-> members,
     iot_standards |-> standards]

NoNotices(ints) == [d \in DOMAIN ints |-> <<>>]

Domains == {"acme", "adguard", "foo"}

BrandIds == {"acme", "foo"}

PlainFile == Some(<<"async_step_user">>)

DiscoverableFiles ==
    {Some(<<"async_step_zeroconf">>),
     Some(<<"async_step_zeroconf", "self.async_set_unique_id">>)}

Shape(manifest, type, translated, file) ==
    [manifest |-> manifest, integration_type |-> type,
     translated_name |-> translated, config_flow_file |-> file]

\* Integrations of the runs that exercise the rule checker from the
\* generator: every type and every kind of config_flow.py.
CheckedIntegrations ==
    {Shape(None, "integration", FALSE, None),
     Shape(Some([config_flow |-> FALSE]), "integration", FALSE, PlainFile),
     Shape(Some([config_flow |-> TRUE]), "integration", FALSE, None)}
    \cup {Shape(Some([config_flow |-> TRUE]), t, FALSE, f) :
            t \in IntegrationTypes, f \in DiscoverableFiles}

\* Integrations of the runs that exercise the brand index.
IndexedIntegrations ==
    {Shape(Some([config_flow |-> FALSE]), "integration", FALSE, PlainFile),
     Shape(Some([config_flow |-> TRUE]), "integration", FALSE, PlainFile),
     Shape(Some([config_flow |-> TRUE]), "helper", TRUE, PlainFile)}

\* Every mapping from some of the domains to an integration of that domain.
IntegrationMaps(shapes) ==
    UNION {{[d \in S |-> Integration(d, g[d].manifest, g[d].integration_type,
                                     g[d].translated_name, g[d].config_flow_file)] :
              g \in [S -> shapes]} :
             S \in SUBSET Domains}

MemberLists ==
    {l \in SeqsUpTo(Domains, MaxMembers) : \A i, j \in 1..Len(l) : l[i] = l[j] => i = j}

BrandInputs(b) ==
    {Brand(b, None, None)}
    \cup {Brand(b, None, Some(<<"zwave">>)) : x \in {b} \cap {"acme"}}
    \cup {Brand(b, Some(l), None) : l \in MemberLists}

BrandMaps ==
    UNION {{f \in [S -> UNION {BrandInputs(b) : b \in S}] : \A b \in S : f[b].domain = b} :
             S \in SUBSET BrandIds}

NoBrands == CHOOSE f \in BrandMaps : DOMAIN f = {}

NoDisk == (CONFIG_FLOWS_PY :> None) @@ (CONFIG_FLOWS_V2_JSON :> None)

-----------------------------------------------------------------------------
(* SpecRule: validate_integration applied to one integration at a time. *)

RuleDomains == UNIQUE_ID_IGNORE \cup {"foo"}

RuleTexts == SeqsUpTo(Identifiers, MaxIdents)

InitRule ==
    /\ \E domain \in RuleDomains, cf \in BOOLEAN,
          file \in {None} \cup {Some(t) : t \in RuleTexts} :
         integrations =
            (domain :> Integration(domain, Some([config_flow |-> cf]),
                                   "integration", FALSE, file))
    /\ brands = NoBrands
    /\ specific_integrations \in BOOLEAN
    /\ integration_errors = NoNotices(integrations)
    /\ integration_warnings = NoNotices(integrations)
    /\ errors = <<>>
    /\ cache = EmptyCache
    /\ disk = NoDisk
    /\ io = {}
    /\ raised = ""
    /\ calls = <<>>
    /\ outputs = <<>>
    /\ result = None

CallValidateIntegration ==
    /\ Len(calls) < MaxCalls
    /\ \E domain \in DOMAIN integrations :
         LET n == ValidateIntegration(specific_integrations, integrations[domain]) IN
         /\ integration_errors' = [integration_errors EXCEPT ![domain] = @ \o n.errors]
         /\ integration_warnings' = [integration_warnings EXCEPT ![domain] = @ \o n.warnings]
    /\ calls' = Append(calls, "validate_integration")
    /\ UNCHANGED <<integrations, brands, specific_integrations, errors, cache,
                   disk, io, raised, outputs, result>>

NextRule == CallValidateIntegration

SpecRule == InitRule /\ [][NextRule]_vars

-----------------------------------------------------------------------------
(* SpecIndex: the two generators called directly on one input. *)

InitIndex ==
    /\ \/ /\ integrations \in IntegrationMaps(CheckedIntegrations)
          /\ brands = NoBrands
          /\ specific_integrations \in BOOLEAN
       \/ /\ integrations \in IntegrationMaps(IndexedIntegrations)
          /\ brands \in BrandMaps
          /\ specific_integrations = FALSE
    /\ integration_errors = NoNotices(integrations)
    /\ integration_warnings = NoNotices(integrations)
    /\ errors = <<>>
    /\ cache = EmptyCache
    /\ disk = NoDisk
    /\ io = {}
    /\ raised = ""
    /\ calls = <<>>
    /\ outputs = <<>>
    /\ result = None

CallGenerateAndValidate ==
    /\ raised = ""
    /\ Len(calls) < MaxRuns
    /\ Range(calls) \subseteq {"generate_and_validate"}
    /\ \E order \in Orders(DOMAIN integrations) :
         \E r \in {GenerateAndValidate(order, integrations, specific_integrations)} :
         /\ integration_errors' =
              [d \in DOMAIN integrations |-> integration_errors[d] \o r.errors[d]]
         /\ integration_warnings' =
              [d \in DOMAIN integrations |-> integration_warnings[d] \o r.warnings[d]]
         /\ raised' = r.raised
         /\ outputs' = Append(outputs, [fn |-> "generate_and_validate",
                                        raised |-> r.raised, value |-> r.content])
    /\ calls' = Append(calls, "generate_and_validate")
    /\ UNCHANGED <<integrations, brands, specific_integrations, errors, cache,
                   disk, io, result>>

CallGenerateV2 ==
    /\ raised = ""
    /\ Len(calls) < MaxRuns
    /\ Range(calls) \subseteq {"_generate_v2"}
    /\ \E order \in Orders(PrimaryDomains(brands, integrations)) :
         \E r \in {GenerateV2(order, brands, integrations)} :
         /\ raised' = r.raised
         /\ result' = IF r.raised = "" THEN Some(r.result) ELSE result
         /\ outputs' = Append(outputs, [fn |-> "_generate_v2",
                                        raised |-> r.raised, value |-> r.content])
    /\ calls' = Append(calls, "_generate_v2")
    /\ UNCHANGED <<integrations, brands, specific_integrations, integration_errors,
                   integration_warnings, errors, cache, disk, io>>

NextIndex == CallGenerateAndValidate \/ CallGenerateV2

SpecIndex == InitIndex /\ [][NextIndex]_vars

-----------------------------------------------------------------------------
(* Spec: the pipeline, validate and generate called on one Config. *)

\* Integrations of the pipeline runs.
PipelineIntegrations ==
    {Shape(Some([config_flow |-> TRUE]), "integration", FALSE,
           Some(<<"async_step_zeroconf">>)),
     Shape(Some([config_flow |-> TRUE]), "helper", FALSE, PlainFile),
     Shape(Some([config_flow |-> TRUE]), "hub", FALSE, PlainFile)}

PipelineBrands ==
    {NoBrands,
     "acme" :> Brand("acme", Some(<<"foo">>), None),
     "acme" :> Brand("acme", None, Some(<<"zwave">>))}

AnyOrder(S) == CHOOSE order \in Orders(S) : TRUE

\* What the generators return on the input, for the artifacts found on disk.
FreshPy(ints) == GenerateAndValidate(AnyOrder(DOMAIN ints), ints, FALSE)

FreshV2(brs, ints) == GenerateV2(AnyOrder(PrimaryDomains(brs, ints)), brs, ints)

Stale == <<"stale">>

Init ==
    /\ integrations \in IntegrationMaps(PipelineIntegrations)
    /\ brands \in PipelineBrands
    /\ specific_integrations \in BOOLEAN
    /\ integration_errors = NoNotices(integrations)
    /\ integration_warnings = NoNotices(integrations)
    /\ errors = <<>>
    /\ cache = EmptyCache
    /\ \E py \in {None, Some(Stale), Some(FreshPy(integrations).content)},
          json \in {None, Some(Stale),
                    Some(FreshV2(brands, integrations).content),
                    Some(FreshV2(brands, integrations).content \o <<"\n">>)} :
         disk = (CONFIG_FLOWS_PY :> py) @@ (CONFIG_FLOWS_V2_JSON :> json)
    /\ io = {}
    /\ raised = ""
    /\ calls = <<>>
    /\ outputs = <<>>
    /\ result = None

State ==
    [specific_integrations |-> specific_integrations,
     integration_errors |-> integration_errors,
     integration_warnings |-> integration_warnings,
     errors |-> errors, cache |-> cache, disk |-> disk, io |-> io,
     raised |-> raised]

Becomes(st) ==
    /\ integration_errors' = st.integration_errors
    /\ integration_warnings' = st.integration_warnings
    /\ errors' = st.errors
    /\ cache' = st.cache
    /\ disk' = st.disk
    /\ io' = st.io
    /\ raised' = st.raised

Validate ==
    /\ raised = ""
    /\ Len(calls) < MaxCalls
    /\ \E order \in Orders(DOMAIN integrations) :
         \E gv \in {GenerateAndValidate(order, integrations, specific_integrations)} :
           \E order2 \in Orders(PrimaryDomains(brands, integrations)) :
             \E v2 \in {GenerateV2(order2, brands, integrations)} :
               \E found \in BrandErrors :
                 \E st \in {ValidateFrom(State, gv, v2, found)} : Becomes(st)
    /\ calls' = Append(calls, "validate")
    /\ UNCHANGED <<integrations, brands, specific_integrations, outputs, result>>

Generate ==
    /\ raised = ""
    /\ Len(calls) < MaxCalls
    /\ \E st \in {GenerateFrom(State)} : Becomes(st)
    /\ calls' = Append(calls, "generate")
    /\ UNCHANGED <<integrations, brands, specific_integrations, outputs, result>>

Next == Validate \/ Generate

Spec == Init /\ [][Next]_vars

-----------------------------------------------------------------------------
(* Properties. Helpers used only to state them. *)

HasManifestAndConfigFlow(integration) ==
    integration.manifest # None /\ integration.manifest[1].config_flow

\* The config_flow.py text names a discovery step / an identity mechanism,
\* read off the text itself.
TextHasDiscoveryStep(integration) ==
    /\ integration.config_flow_file # None
    /\ \E i \in 1..Len(integration.config_flow_file[1]) :
         integration.config_flow_file[1][i]
            \in DiscoverySteps \cup {"async_step_discovery_confirm"}

TextHasIdentity(integration) ==
    /\ integration.config_flow_file # None
    /\ \E i \in 1..Len(integration.config_flow_file[1]) :
         integration.config_flow_file[1][i] \in UniqueIdMarkers

Discoverable(d) ==
    /\ d \notin {"huawei_lte", "mqtt", "adguard"}
    /\ TextHasDiscoveryStep(integrations[d])
    /\ ~TextHasIdentity(integrations[d])

Count(seq, x) == Cardinality({i \in 1..Len(seq) : seq[i] = x})

Last(seq) == seq[Len(seq)]

\* C9: the unique-ID diagnostic is on an integration, as an error or as a
\* warning, only if the integration is not exempt, its text names a
\* discovery step and it names no identity mechanism.
C9_UniqueIdNoticeOnlyWhenRequired ==
    \A d \in DOMAIN integrations :
        (Count(integration_errors[d], UniqueIdNotice)
            + Count(integration_warnings[d], UniqueIdNotice) > 0)
        => Discoverable(d)

\* validate_integration has run in a scoped run on a text whose only mention
\* of a discovery step is inside a longer identifier, and left the warning.
C9_Witness ==
    /\ calls # <<>>
    /\ specific_integrations
    /\ \E d \in DOMAIN integrations :
         /\ integrations[d].config_flow_file = Some(<<"async_step_discovery_confirm">>)
         /\ integration_warnings[d] # <<>>
         /\ Last(integration_warnings[d]) = UniqueIdNotice

\* The two lists of a v1 artifact, read back from its text.
Position(content, token) == CHOOSE i \in 1..Len(content) : content[i] = token

ListOf(content, key) ==
    LET open == Position(content, key) + 1
        close == CHOOSE j \in open..Len(content) :
                    /\ content[j] = "]"
                    /\ \A k \in open..(j - 1) : content[k] # "]"
    IN SubSeq(content, open + 1, close - 1)

Ascending(list) == \A i, j \in 1..Len(list) : i < j => Rank(list[i]) < Rank(list[j])

GeneratedV1 == {i \in 1..Len(outputs) : outputs[i].fn = "generate_and_validate"}

\* C1: after one run of generate_and_validate, every integration with a
\* manifest and config-flow support that is discoverable without identity and
\* not exempt carries exactly one config_flow diagnostic: a warning in a
\* scoped run, an error otherwise.
C1_ExactlyOneDiagnostic ==
    calls = <<"generate_and_validate">> =>
        \A d \in DOMAIN integrations :
            (HasManifestAndConfigFlow(integrations[d]) /\ Discoverable(d)) =>
                /\ Len(integration_errors[d]) + Len(integration_warnings[d]) = 1
                /\ \A n \in Range(integration_errors[d]) \cup Range(integration_warnings[d]) :
                       n.plugin = "config_flow"
                /\ (Len(integration_warnings[d]) = 1) <=> specific_integrations

\* C3: generate_and_validate completes, and every domain with a manifest and
\* config-flow support is in exactly one of the two lists, no other domain is
\* in either, and each list ascends; whatever the integration types.
C3_PartitionForEveryType ==
    \A i \in GeneratedV1 :
        /\ outputs[i].raised = ""
        /\ LET integration == ListOf(outputs[i].value, "integration")
               helper == ListOf(outputs[i].value, "helper")
           IN /\ \A d \in DOMAIN integrations :
                    IF HasManifestAndConfigFlow(integrations[d])
                    THEN Count(integration, d) + Count(helper, d) = 1
                    ELSE Count(integration, d) + Count(helper, d) = 0
              /\ Range(integration) \cup Range(helper) \subseteq DOMAIN integrations
              /\ Ascending(integration)
              /\ Ascending(helper)

\* The v2 index, read back from the dict _generate_v2 built.
TopLevel(res) == Keys(res.integration) \cup Keys(res.helper)

TopLevelCount(res, d) ==
    Cardinality({i \in 1..Len(res.integration) : res.integration[i][1] = d})
        + Cardinality({i \in 1..Len(res.helper) : res.helper[i][1] = d})

Entries(res) == Range(res.integration) \cup Range(res.helper)

\* How many times d is nested in the "integrations" mapping of entry b.
NestedCount(res, b, d) ==
    Cardinality({<<e, i>> \in UNION {{<<e, i>> : i \in 1..(IF e[2].integrations = None THEN 0
                                                          ELSE Len(e[2].integrations[1]))} :
                                      e \in {x \in Entries(res) : x[1] = b}} :
                    e[2].integrations[1][i][1] = d})

NestedUnder(res, b, d) == NestedCount(res, b, d) > 0

Listed(b, d) ==
    /\ b \in DOMAIN brands
    /\ brands[b].integrations # None
    /\ \E i \in 1..Len(brands[b].integrations[1]) : brands[b].integrations[1][i] = d

Claimed(d) == \E b \in DOMAIN brands : Listed(b, d)

\* C2 as stated: a domain some brand lists is never a top-level key of the
\* index, a brand identifier included; it is nested only under brands that
\* list it.
C2_ClaimedNeverTopLevel ==
    result # None =>
        \A d \in Domains :
            Claimed(d) =>
                /\ d \notin TopLevel(result[1])
                /\ \A b \in Domains : NestedUnder(result[1], b, d) => Listed(b, d)

\* C2 as amended: a domain some brand lists is a top-level key only if it is
\* itself a brand identifier, and the top-level entry is then that brand's,
\* under "integration"; it is nested only under brands that list it.
C2_ClaimedTopLevelOnlyAsBrand ==
    result # None =>
        \A d \in Domains :
            Claimed(d) =>
                /\ d \in TopLevel(result[1]) =>
                      /\ d \in DOMAIN brands
                      /\ d \notin Keys(result[1].helper)
                      /\ \A e \in Entries(result[1]) :
                            e[1] = d => e[2].name = brands[d].name
                /\ \A b \in Domains : NestedUnder(result[1], b, d) => Listed(b, d)

\* _generate_v2 has returned an index in which an integration with config-flow
\* support that a brand lists is nested under the brand and absent from the
\* top level, while another listed domain, a brand, is at the top level.
C2_Witness ==
    /\ result # None
    /\ \E d \in DOMAIN integrations, b \in DOMAIN brands :
         /\ HasManifestAndConfigFlow(integrations[d])
         /\ d \notin DOMAIN brands
         /\ Listed(b, d)
         /\ NestedUnder(result[1], b, d)
         /\ d \notin TopLevel(result[1])
    /\ \E d \in DOMAIN brands : Claimed(d) /\ d \in TopLevel(result[1])

Occurrences(res, d) ==
    TopLevelCount(res, d) + Cardinality({b \in Domains : NestedUnder(res, b, d)})

\* C5 as stated: every integration domain in the index is there exactly once,
\* top-level or nested under one brand, never both and never under two brands.
C5_EveryDomainOnce ==
    result # None =>
        \A d \in DOMAIN integrations : Occurrences(result[1], d) <= 1

\* C5 as amended: a domain is a top-level key at most once and is nested at
\* most once under any one brand; it is nested under exactly the brands that
\* list it (so under several when several list it), provided it is a loaded
\* integration; and it is both nested and top-level only when it is itself a
\* brand identifier.
C5_OncePerLevel ==
    result # None =>
        \A d \in Domains :
            /\ TopLevelCount(result[1], d) <= 1
            /\ \A b \in Domains :
                  /\ NestedCount(result[1], b, d) <= 1
                  /\ NestedUnder(result[1], b, d)
                        <=> (Listed(b, d) /\ d \in DOMAIN integrations)
            /\ (d \in TopLevel(result[1]) /\ \E b \in Domains : NestedUnder(result[1], b, d))
                  => d \in DOMAIN brands

\* _generate_v2 has returned an index in which one integration is nested under
\* two brands.
C5_Witness ==
    /\ result # None
    /\ \E d \in DOMAIN integrations :
         \E b1, b2 \in DOMAIN brands :
            /\ b1 # b2
            /\ NestedUnder(result[1], b1, d)
            /\ NestedUnder(result[1], b2, d)

\* C8: every call of a generator on the same input returns the same value,
\* whatever the order in which the mappings and sets yield their elements.
C8_SameOutputEveryCall ==
    \A i, j \in 1..Len(outputs) :
        outputs[i].fn = outputs[j].fn => outputs[i] = outputs[j]

\* _generate_v2 has been called twice and returned an index of two top-level
\* entries, one of them a brand with two nested integrations.
C8_Witness ==
    /\ Len(outputs) = 2
    /\ outputs[1].fn = "_generate_v2"
    /\ outputs[2].fn = "_generate_v2"
    /\ outputs[2].raised = ""
    /\ result # None
    /\ Cardinality(TopLevel(result[1])) >= 2
    /\ \E e \in Entries(result[1]) :
         e[2].integrations # None /\ Len(e[2].integrations[1]) >= 2

\* The errors of category config_flow a step appends to config.errors.
IsConfigFlowError(e) == e.plugin = "config_flow"

Added == SelectSeq(SubSeq(errors', Len(errors) + 1, Len(errors')), IsConfigFlowError)

ValidateStep == calls' = Append(calls, "validate")

ExpectedDrift(file, stale) == IF stale THEN <<DriftError(file)>> ELSE <<>>

\* C4: in a run that is not scoped, a call of validate that returns normally
\* appends, for each artifact on its own, the fixable config_flow error naming
\* it exactly when the file on disk differs from the content generated in
\* that call (for the JSON artifact, that content plus a newline), and no
\* other config_flow error; a call that stops at a missing JSON artifact has still judged the
\* source artifact that way.
C4_OneDriftErrorPerStaleArtifact ==
    [][(ValidateStep /\ ~specific_integrations) =>
          /\ raised' = "" =>
                Added = ExpectedDrift("config_flows.py",
                            disk["config_flows.py"][1] # cache'.config_flow[1])
                        \o ExpectedDrift("config_flows_v2.json",
                            disk["config_flows_v2.json"][1]
                                # cache'.config_flow_v2[1] \o <<"\n">>)
          /\ (raised' = "FileNotFoundError" /\ disk["config_flows.py"] # None) =>
                Added = ExpectedDrift("config_flows.py",
                            disk["config_flows.py"][1] # cache'.config_flow[1])
          /\ \A i \in 1..Len(Added) : Added[i].fixable]_vars

\* validate has returned in a run that is not scoped, with the source artifact
\* up to date and the JSON artifact on disk lacking only the trailing newline:
\* one error, naming the JSON artifact.
C4_Witness ==
    /\ calls = <<"validate">>
    /\ ~specific_integrations
    /\ raised = ""
    /\ disk["config_flows.py"] = cache.config_flow
    /\ disk["config_flows_v2.json"] = cache.config_flow_v2
    /\ errors = <<DriftError("config_flows_v2.json")>>

\* C6: in a scoped run nothing is read or loaded for the drift validation and
\* no error is recorded on the Config, whatever is or is not on disk.
C6_ScopedRunSkipsDrift ==
    specific_integrations => (io = {} /\ errors = <<>>)

\* validate has returned normally in a scoped run with both artifacts missing.
C6_Witness ==
    /\ specific_integrations
    /\ calls = <<"validate">>
    /\ raised = ""
    /\ cache.config_flow # None
    /\ disk["config_flows.py"] = None
    /\ disk["config_flows_v2.json"] = None

ReturnedNormally(fn) == calls # <<>> /\ Last(calls) = fn /\ raised = ""

GenerateAfterValidate ==
    /\ Len(calls) >= 2
    /\ Last(calls) = "generate"
    /\ "validate" \in Range(SubSeq(calls, 1, Len(calls) - 1))

\* C7 as stated: after validate returns normally, in either run mode, the
\* cache holds the content of both artifacts.
C7_BothCachedInEveryMode ==
    ReturnedNormally("validate") =>
        (cache.config_flow # None /\ cache.config_flow_v2 # None)

\* C7 as amended: after validate returns normally in a run that is not scoped
\* the cache holds both contents and a following generate writes both files
\* without failing; in a scoped run validate caches the v1 content only, and
\* generate raises KeyError.
C7_BothCachedUnlessScoped ==
    /\ (ReturnedNormally("validate") /\ ~specific_integrations) =>
          (cache.config_flow # None /\ cache.config_flow_v2 # None)
    /\ (GenerateAfterValidate /\ ~specific_integrations) =>
          /\ raised = ""
          /\ disk["config_flows.py"] = cache.config_flow
          /\ disk["config_flows_v2.json"] = Some(cache.config_flow_v2[1] \o <<"\n">>)
    /\ (ReturnedNormally("validate") /\ specific_integrations) =>
          (cache.config_flow # None /\ cache.config_flow_v2 = None)
    /\ (GenerateAfterValidate /\ specific_integrations) => raised = "KeyError"

\* generate has written both files after a validate, in a run that is not
\* scoped, that found both artifacts stale.
C7_Witness ==
    /\ calls = <<"validate", "generate">>
    /\ ~specific_integrations
    /\ raised = ""
    /\ errors = <<DriftError("config_flows.py"), DriftError("config_flows_v2.json")>>
    /\ disk["config_flows.py"] = cache.config_flow

\* C10: in a run that is not scoped, a validate that follows generate, itself
\* preceded by a validate, returns normally, appends no drift error and finds both
\* files equal to the content it generates.
C10_NoDriftAfterRegeneration ==
    [][(ValidateStep /\ GenerateAfterValidate /\ ~specific_integrations) =>
          /\ raised' = ""
          /\ Added = <<>>
          /\ disk' = disk
          /\ disk["config_flows.py"] = cache'.config_flow
          /\ disk["config_flows_v2.json"] = Some(cache'.config_flow_v2[1] \o <<"\n">>)]_vars

\* validate, generate, validate have run; the first validate found both
\* artifacts stale and the second recorded nothing more.
C10_Witness ==
    /\ calls = <<"validate", "generate", "validate">>
    /\ ~specific_integrations
    /\ raised = ""
    /\ errors = <<DriftError("config_flows.py"), DriftError("config_flows_v2.json")>>

====
